---- MODULE Spec2Model ----
(***************************************************************************)
(* Model of the retrieval core of medical-awp (src/app.go): the in-memory  *)
(* document store, LoadPersonalData (ingestion under a.mu), HandleMessage  *)
(* (query embedding, findRelevantChunks, source event, prompt assembly)    *)
(* and the ranking function findRelevantChunks / cosineSimilarity.         *)
(***************************************************************************)
EXTENDS Integers, Sequences, FiniteSets, TLC

(***************************************************************************)
(* Bounds of the model.                                                    *)
(***************************************************************************)
\* number of concurrent LoadPersonalData calls (Wails runs each bound call in
\* its own goroutine)
NumLoaders == 2
\* total number of embedding calls of one run that the model service fails
MaxEmbedFailures == 1
\* largest store drawn as input of a direct findRelevantChunks call
MaxRankStore == 4
\* lines of the chat response body that one turn reads
MaxStreamLines == 2
\* longest text handed to a splitter, in characters
MaxTextLen == 5
\* largest chunk size and overlap handed to a splitter
MaxChunkSize == 3
\* longest vector handed to cosineSimilarity
MaxVecLen == 2

Loaders == 1 .. NumLoaders

(***************************************************************************)
(* Program constants.                                                      *)
(***************************************************************************)
\* topN := 3 in HandleMessage
HandleMessageTopN == 3
\* topN = 3 when topN <= 0 in findRelevantChunks
DefaultTopN == 3

(***************************************************************************)
(* Strings as sequences of characters, for the file-name filter of         *)
(* LoadPersonalData: strings.HasSuffix(strings.ToLower(name), ".txt").     *)
(***************************************************************************)
ToLowerChar(c) ==
    CASE c = "A" -> "a"
      [] c = "B" -> "b"
      [] c = "T" -> "t"
      [] c = "X" -> "x"
      [] OTHER -> c

ToLower(s) == [i \in 1 .. Len(s) |-> ToLowerChar(s[i])]

HasSuffix(s, suffix) ==
    /\ Len(s) >= Len(suffix)
    /\ SubSeq(s, Len(s) - Len(suffix) + 1, Len(s)) = suffix

TxtSuffix == <<".", "t", "x", "t">>

IsSelectedEntryAnyFile(entry) == ~entry.isDir

\* the condition of the if at the head of the loop over dirEntries
IsSelectedEntry(entry) ==
    /\ ~entry.isDir
    /\ HasSuffix(ToLower(entry.name), TxtSuffix)

(***************************************************************************)
(* The environment: the directories the dialog can return, and the model   *)
(* service's embedding of a text.  A directory entry carries its name,     *)
(* whether it is a directory, whether os.ReadFile succeeds on it, and the  *)
(* chunks chunkTextRecursive returns for its content.                      *)
(***************************************************************************)
File(name, readable, chunks) ==
    [name |-> name, isDir |-> FALSE, readable |-> readable, chunks |-> chunks]

SubDir(name) ==
    [name |-> name, isDir |-> TRUE, readable |-> FALSE, chunks |-> <<>>]

Directories ==
    [ dirA |-> [ readable |-> TRUE,
                 entries |-> << File(<<"a", ".", "t", "x", "t">>, TRUE, <<"t1", "t2">>),
                                File(<<"c", ".", "p", "d", "f">>, TRUE, <<"t6">>),
                                SubDir(<<"s", ".", "t", "x", "t">>),
                                File(<<"u", ".", "t", "x", "t">>, FALSE, <<"t6">>),
                                File(<<"B", ".", "T", "X", "T">>, TRUE, <<"t3">>) >> ],
      dirB |-> [ readable |-> TRUE,
                 entries |-> << File(<<"d", ".", "t", "x", "t">>, TRUE,
                                     <<"t1", "t2", "t3", "t4", "t5">>) >> ],
      dirX |-> [ readable |-> FALSE, entries |-> <<>> ] ]

DirectoryPaths == DOMAIN Directories

\* what runtime.OpenDirectoryDialog returns: an error text and a path
DialogOutcomes ==
    {[err |-> "shellItem is nil", path |-> ""],
     [err |-> "dialog failed", path |-> ""],
     [err |-> "", path |-> ""]}
    \cup {[err |-> "", path |-> p] : p \in DirectoryPaths}

\* the vector the embedding model returns for a text (never empty:
\* getOllamaEmbedding turns an empty embedding into an error)
EmbeddingOf(text) ==
    CASE text = "t1" -> <<1, 0>>
      [] text = "t2" -> <<0, 1>>
      [] text = "t3" -> <<1, 1>>
      [] text = "t4" -> <<1, 0>>
      [] text = "t5" -> <<0, 0>>
      [] text = "t7" -> <<1, 0, 0>>
      [] text = "t8" -> <<-1, 0>>
      [] text = "q1" -> <<1, 0>>
      [] text = "q2" -> <<1, 3>>
      [] text = "q3" -> <<-1, -2>>
      [] OTHER -> <<1, 2>>

\* strings.TrimSpace(chunkText) == ""
IsBlank(text) == text \in {"", " "}

(***************************************************************************)
(* Similarity scores.  cosineSimilarity returns dot/(|A|*|B|), a float64.  *)
(* The model keeps a score c exactly, as the reduced fraction num/den of   *)
(* sign(c)*c^2 (den > 0): x |-> sign(x)*x^2 is strictly increasing, so the *)
(* order and the equality of scores are those of the cosines, and          *)
(* c >= 0.5 is num/den >= 1/4.                                             *)
(***************************************************************************)
RECURSIVE Gcd(_, _)
Gcd(a, b) == IF b = 0 THEN a ELSE Gcd(b, a % b)

Abs(x) == IF x < 0 THEN -x ELSE x

Fraction(num, den) ==
    LET g == Gcd(Abs(num), den)
    IN [num |-> num \div g, den |-> den \div g]

ZeroScore == [num |-> 0, den |-> 1]

\* a.score > b.score
ScoreGreater(a, b) == a.num * b.den > b.num * a.den

\* ragRelevanceThreshold = 0.5, as the fraction of its square
RagRelevanceThreshold == [num |-> 1, den |-> 4]

RECURSIVE SumProducts(_, _, _)
\* the accumulation loop of cosineSimilarity over the first n components
SumProducts(vecA, vecB, n) ==
    IF n = 0 THEN 0 ELSE SumProducts(vecA, vecB, n - 1) + vecA[n] * vecB[n]

cosineSimilarityZeroIsError(vecA, vecB) ==
    IF Len(vecA) # Len(vecB)
    THEN [value |-> ZeroScore, err |-> "vectors must have the same length"]
    ELSE IF Len(vecA) = 0
    THEN [value |-> ZeroScore, err |-> "vectors must not be empty"]
    ELSE LET dotProduct == SumProducts(vecA, vecB, Len(vecA))
             magnitudeA2 == SumProducts(vecA, vecA, Len(vecA))
             magnitudeB2 == SumProducts(vecB, vecB, Len(vecA))
         IN IF magnitudeA2 = 0 \/ magnitudeB2 = 0
            THEN [value |-> ZeroScore, err |-> "zero vector"]
            ELSE [value |-> Fraction((IF dotProduct < 0 THEN -1 ELSE 1)
                                        * dotProduct * dotProduct,
                                     magnitudeA2 * magnitudeB2),
                  err |-> ""]

\* cosineSimilarity(vecA, vecB) (float64, error)
cosineSimilarity(vecA, vecB) ==
    IF Len(vecA) # Len(vecB)
    THEN [value |-> ZeroScore, err |-> "vectors must have the same length"]
    ELSE IF Len(vecA) = 0
    THEN [value |-> ZeroScore, err |-> "vectors must not be empty"]
    ELSE LET dotProduct == SumProducts(vecA, vecB, Len(vecA))
             magnitudeA2 == SumProducts(vecA, vecA, Len(vecA))
             magnitudeB2 == SumProducts(vecB, vecB, Len(vecA))
         IN IF magnitudeA2 = 0 \/ magnitudeB2 = 0
            THEN [value |-> ZeroScore, err |-> ""]
            ELSE [value |-> Fraction((IF dotProduct < 0 THEN -1 ELSE 1)
                                        * dotProduct * dotProduct,
                                     magnitudeA2 * magnitudeB2),
                  err |-> ""]

(***************************************************************************)
(* findRelevantChunks.                                                     *)
(***************************************************************************)
Min(x, y) == IF x < y THEN x ELSE y

\* the scan loop keeps a chunk unless its embedding is empty or
\* cosineSimilarity reports an error
IsRanked(queryEmbedding, chunk) ==
    /\ Len(chunk.Embedding) # 0
    /\ cosineSimilarity(queryEmbedding, chunk.Embedding).err = ""

RECURSIVE ScanStore(_, _, _)
\* rankedChunks after the scan of the first n records of the store
ScanStore(store, queryEmbedding, n) ==
    IF n = 0 THEN <<>>
    ELSE LET rest == ScanStore(store, queryEmbedding, n - 1)
             chunk == store[n]
         IN IF IsRanked(queryEmbedding, chunk)
            THEN Append(rest, [chunk |-> chunk,
                               score |-> cosineSimilarity(queryEmbedding,
                                                          chunk.Embedding).value])
            ELSE rest

RankLessAscending(a, b) == ScoreGreater(b.score, a.score)

\* the less function handed to sort.Slice
RankLess(a, b) == ScoreGreater(a.score, b.score)

\* an order sort.Slice may leave the slice in: a permutation of it in which
\* no element is less than one before it (sort.Slice is not stable, so the
\* order of elements neither of which is less than the other is open)
IsSortedBy(order, slice) ==
    \A i, j \in 1 .. Len(slice) :
        i < j => ~RankLess(slice[order[j]], slice[order[i]])

SortSlice(slice) ==
    {[i \in 1 .. Len(slice) |-> slice[order[i]]] :
        order \in {o \in Permutations(1 .. Len(slice)) : IsSortedBy(o, slice)}}

\* topN <= 0 is replaced by 3
EffectiveTopN(topN) == IF topN <= 0 THEN DefaultTopN ELSE topN

\* resultChunks: the first numToReturn ranked chunks, each with its Score set
TakeTop(ranked, topN) ==
    LET numToReturn == Min(EffectiveTopN(topN), Len(ranked))
    IN [i \in 1 .. numToReturn |-> [ranked[i].chunk EXCEPT !.Score = ranked[i].score]]

\* the results of the scan, sort and cut of findRelevantChunks over a store
RankStore(store, queryEmbedding, topN) ==
    {TakeTop(ranked, topN) :
        ranked \in SortSlice(ScanStore(store, queryEmbedding, Len(store)))}

\* findRelevantChunks(queryEmbedding, topN) over a.documentStore = store: the
\* set of slices it may return
findRelevantChunks(store, queryEmbedding, topN) ==
    IF Len(store) = 0 THEN {<<>>} ELSE RankStore(store, queryEmbedding, topN)

(***************************************************************************)
(* State.                                                                  *)
(***************************************************************************)
VARIABLES
    documentStore,   \* a.documentStore: sequence of DocumentChunk
    nextDocumentID,  \* a.nextDocumentID
    mu,              \* a.mu: 0 when unlocked, else the loader holding it
    load,            \* per LoadPersonalData call: position and locals
    embedFailures,   \* embedding calls failed so far
    chat,            \* the HandleMessage call: position and locals
    events,          \* what the current turn emitted with runtime.EventsEmit
    rank,            \* a direct call of findRelevantChunks: input and result
    lastClear,       \* the loader that cleared the store last (0: none)
    stream,          \* the askOllamaChatRaw goroutine of the current turn
    ctxCancelled,    \* a.ctx.Err() != nil
    chunker,         \* a direct call of a text splitter: input and result
    similarity,      \* a direct call of cosineSimilarity: input and result
    loop             \* a splitter's loop followed iteration by iteration

vars == <<documentStore, nextDocumentID, mu, load, embedFailures, chat, events,
          rank, lastClear, stream, ctxCancelled, chunker, similarity, loop>>

loadVars == <<documentStore, nextDocumentID, mu, load, lastClear>>
chatVars == <<chat, events, stream>>
callVars == <<rank, chunker, similarity, loop>>

DocumentChunk(id, text, embedding, sourceFile) ==
    [ID |-> id, Text |-> text, Embedding |-> embedding, SourceFile |-> sourceFile,
     Score |-> ZeroScore]

NoResult == [msg |-> "", files |-> 0, chunks |-> 0, dir |-> ""]

\* The locals of a LoadPersonalData call that has not started.  Beside the
\* code's locals the record keeps what the call did: the calls it made to
\* os.ReadFile and getOllamaEmbedding with their outcome (trace), and the
\* store and next id when it took the mutex and when it returned.
LoadIdle ==
    [pc |-> "idle", dialogErr |-> "", dir |-> "", entryIdx |-> 0, chunkIdx |-> 0,
     filesProcessed |-> 0, chunksLoaded |-> 0, result |-> NoResult,
     trace |-> <<>>,
     preStore |-> <<>>, preNextID |-> 0, postStore |-> <<>>, postNextID |-> 0]

\* A call that returned keeps the record of what it did until a later call
\* takes the mutex; from then on only the record of the call that cleared the
\* store last is kept.
LoadForgotten == [LoadIdle EXCEPT !.pc = "forgotten"]

UserInputs == {"q1", "q3"}

\* The locals of HandleMessage before a call.  scanned, scanDuring and scans
\* record the store findRelevantChunks read and the loader holding a.mu at
\* that moment.
ChatIdle ==
    [pc |-> "idle", userInput |-> "", queryEmbedding |-> <<>>,
     relevantChunks |-> <<>>, finalPrompt |-> [augmented |-> FALSE,
                                               context |-> <<>>,
                                               question |-> ""],
     returned |-> "", generation |-> FALSE,
     scanned |-> <<>>, scanDuring |-> 0, scans |-> 0]

RankIdle == [pc |-> "idle", queryEmbedding |-> <<>>, topN |-> 0, result |-> <<>>]

\* a line of the response body: whether it is empty, whether json.Unmarshal
\* accepts it, and the message content and done flag it carries
Line(empty, valid, content, done) ==
    [empty |-> empty, valid |-> valid, Content |-> content, Done |-> done]

NoLine == Line(TRUE, FALSE, "", FALSE)

\* No askOllamaChatRaw goroutine is followed.  Beside the code's locals
\* (messages, finalErrorMessage, streamEndedByOllama, line) the record keeps
\* the number of lines read, the return statement the goroutine left by
\* (exit), and where the goroutine was and how many events the turn had
\* emitted when a.ctx was cancelled (cancelledAt, emittedAtCancel).
StreamNone ==
    [pc |-> "none", messages |-> <<>>, finalErrorMessage |-> "", line |-> NoLine,
     linesRead |-> 0, streamEndedByOllama |-> FALSE, exit |-> "",
     cancelledAt |-> "", emittedAtCancel |-> 0]

ChunkerIdle ==
    [pc |-> "idle", splitter |-> "", text |-> <<>>, chunkSize |-> 0,
     overlap |-> 0, result |-> <<>>]

SimilarityIdle == [pc |-> "idle", vecA |-> <<>>, vecB |-> <<>>, value |-> ZeroScore,
                   err |-> ""]

\* No loop is followed.  Beside the arguments of the call the record keeps the
\* units the loop runs over (runes or words), the chunk size and the overlap
\* in use after the validation of the arguments, the loop variable (start,
\* counted from 0), the chunks appended, and for each chunk the positions
\* [from, to) of the units it was cut from.
LoopIdle ==
    [pc |-> "idle", splitter |-> "", text |-> <<>>, chunkSize |-> 0, overlap |-> 0,
     units |-> <<>>, size |-> 0, overlapUsed |-> 0, start |-> 0, spans |-> <<>>,
     chunks |-> <<>>]

Init ==
    /\ documentStore = <<>>
    /\ nextDocumentID = 1
    /\ mu = 0
    /\ load = [l \in Loaders |-> LoadIdle]
    /\ embedFailures = 0
    /\ chat = ChatIdle
    /\ events = <<>>
    /\ rank = RankIdle
    /\ lastClear = 0
    /\ stream = StreamNone
    /\ ctxCancelled = FALSE
    /\ chunker = ChunkerIdle
    /\ similarity = SimilarityIdle
    /\ loop = LoopIdle

(***************************************************************************)
(* LoadPersonalData.                                                       *)
(***************************************************************************)
\* a.mu.Lock() returns only when the mutex is free
MutexFreeAlways(m) == TRUE

MutexFree(m) == m = 0

\* a.mu.Lock(); defer a.mu.Unlock().  The calls are interchangeable: they are
\* numbered in the order in which Lock returns.
LoadLock(l) ==
    /\ load[l].pc = "idle"
    /\ \A k \in Loaders : k < l => load[k].pc # "idle"
    /\ MutexFree(mu)
    /\ mu' = l
    /\ load' = [k \in Loaders |->
                  IF k = l
                  THEN [load[l] EXCEPT !.pc = "dialog",
                                       !.preStore = documentStore,
                                       !.preNextID = nextDocumentID]
                  ELSE IF load[k].pc = "done" /\ k # lastClear
                  THEN LoadForgotten
                  ELSE load[k]]
    /\ UNCHANGED <<documentStore, nextDocumentID, embedFailures, lastClear,
                   chatVars, ctxCancelled, callVars>>

LoadReturnKeepsLock(l, locals, result, store, nextID) ==
    /\ load' = [load EXCEPT ![l] = [locals EXCEPT !.pc = "done",
                                                  !.result = result,
                                                  !.postStore = store,
                                                  !.postNextID = nextID]]
    /\ mu' = mu

\* a return of LoadPersonalData with the store left as store/nextID: the value
\* returned, and the deferred a.mu.Unlock()
LoadReturn(l, locals, result, store, nextID) ==
    /\ load' = [load EXCEPT ![l] = [locals EXCEPT !.pc = "done",
                                                  !.result = result,
                                                  !.postStore = store,
                                                  !.postNextID = nextID]]
    /\ mu' = IF mu = l THEN 0 ELSE mu

CancelledClosed ==
    [msg |-> "Document loading cancelled by user (dialog closed).",
     files |-> 0, chunks |-> 0, dir |-> ""]

CancelledNoDir ==
    [msg |-> "Document loading cancelled by user (no directory selected).",
     files |-> 0, chunks |-> 0, dir |-> ""]

DialogError ==
    [msg |-> "error opening directory dialog", files |-> 0, chunks |-> 0, dir |-> ""]

ReadDirError(dir) ==
    [msg |-> "error reading directory", files |-> 0, chunks |-> 0, dir |-> dir]

Summary(files, chunks, dir) ==
    [msg |-> "Successfully processed", files |-> files, chunks |-> chunks, dir |-> dir]

\* the value returned when the dialog gave an error or an empty path
DialogResult(outcome) ==
    IF outcome.err = "shellItem is nil" THEN CancelledClosed
    ELSE IF outcome.err # "" THEN DialogError
    ELSE CancelledNoDir

LoadDialogCancelClears(l) ==
    /\ load[l].pc = "dialog"
    /\ \E outcome \in DialogOutcomes :
          /\ outcome.err # "" \/ outcome.path = ""
          /\ LoadReturn(l, [load[l] EXCEPT !.dialogErr = outcome.err],
                        DialogResult(outcome), <<>>, 1)
    /\ documentStore' = <<>>
    /\ nextDocumentID' = 1
    /\ UNCHANGED <<embedFailures, lastClear, chatVars, ctxCancelled, callVars>>

\* runtime.OpenDirectoryDialog returned an error or an empty path
LoadDialogCancel(l) ==
    /\ load[l].pc = "dialog"
    /\ \E outcome \in DialogOutcomes :
          /\ outcome.err # "" \/ outcome.path = ""
          /\ LoadReturn(l, [load[l] EXCEPT !.dialogErr = outcome.err],
                        DialogResult(outcome), documentStore, nextDocumentID)
    /\ UNCHANGED <<documentStore, nextDocumentID, embedFailures, lastClear,
                   chatVars, ctxCancelled, callVars>>

ClearStoreKeepsNextID ==
    /\ documentStore' = <<>>
    /\ nextDocumentID' = nextDocumentID

\* a.documentStore = make([]DocumentChunk, 0); a.nextDocumentID = 1
ClearStore ==
    /\ documentStore' = <<>>
    /\ nextDocumentID' = 1

ReadDirFailedBeforeClear(l, locals) ==
    /\ UNCHANGED <<documentStore, nextDocumentID, lastClear>>
    /\ LoadReturn(l, locals, ReadDirError(locals.dir), documentStore, nextDocumentID)

\* os.ReadDir returned an error: the store was cleared, the message is returned
ReadDirFailed(l, locals) ==
    /\ ClearStore
    /\ lastClear' = l
    /\ LoadReturn(l, locals, ReadDirError(locals.dir), documentStore', nextDocumentID')

\* a directory was selected: the store is cleared, then os.ReadDir
LoadClear(l) ==
    /\ load[l].pc = "dialog"
    /\ \E outcome \in DialogOutcomes :
          /\ outcome.err = "" /\ outcome.path # ""
          /\ LET locals == [load[l] EXCEPT !.dir = outcome.path,
                                           !.filesProcessed = 0,
                                           !.chunksLoaded = 0]
             IN IF ~Directories[outcome.path].readable
                THEN ReadDirFailed(l, locals)
                ELSE /\ ClearStore
                     /\ lastClear' = l
                     /\ load' = [load EXCEPT ![l] =
                                   [locals EXCEPT !.pc = "entry", !.entryIdx = 1]]
                     /\ mu' = mu
    /\ UNCHANGED <<embedFailures, chatVars, ctxCancelled, callVars>>

DirEntries(l) == Directories[load[l].dir].entries

CurrentEntry(l) == DirEntries(l)[load[l].entryIdx]

\* an entry of the record of calls
Call(kind, l) ==
    [kind |-> kind, entry |-> load[l].entryIdx, chunk |-> load[l].chunkIdx]

\* one iteration of the loop over dirEntries up to the chunk loop, or the
\* return of the summary after the last entry
LoadEntry(l) ==
    /\ load[l].pc = "entry"
    /\ IF load[l].entryIdx > Len(DirEntries(l))
       THEN LoadReturn(l, load[l],
                       Summary(load[l].filesProcessed, load[l].chunksLoaded,
                               load[l].dir),
                       documentStore, nextDocumentID)
       ELSE /\ IF ~IsSelectedEntry(CurrentEntry(l))
               THEN load' = [load EXCEPT ![l].entryIdx = @ + 1]
               ELSE IF ~CurrentEntry(l).readable
               THEN load' = [load EXCEPT ![l].entryIdx = @ + 1,
                                         ![l].trace = Append(@, Call("read_fail", l))]
               ELSE load' = [load EXCEPT ![l].pc = "chunk",
                                         ![l].chunkIdx = 1,
                                         ![l].trace = Append(@, Call("read_ok", l))]
            /\ mu' = mu
    /\ UNCHANGED <<documentStore, nextDocumentID, embedFailures, lastClear,
                   chatVars, ctxCancelled, callVars>>

\* one iteration of the loop over textChunks up to the embedding call, or
\* filesProcessed++ after the last chunk
LoadChunk(l) ==
    /\ load[l].pc = "chunk"
    /\ LET chunks == CurrentEntry(l).chunks
       IN IF load[l].chunkIdx > Len(chunks)
          THEN load' = [load EXCEPT ![l].pc = "entry",
                                    ![l].entryIdx = @ + 1,
                                    ![l].filesProcessed = @ + 1]
          ELSE IF IsBlank(chunks[load[l].chunkIdx])
          THEN load' = [load EXCEPT ![l].chunkIdx = @ + 1]
          ELSE load' = [load EXCEPT ![l].pc = "embedding"]
    /\ UNCHANGED <<documentStore, nextDocumentID, mu, embedFailures, lastClear,
                   chatVars, ctxCancelled, callVars>>

LoadEmbedFailAborts(l) ==
    /\ load[l].pc = "embedding"
    /\ embedFailures < MaxEmbedFailures
    /\ embedFailures' = embedFailures + 1
    /\ load' = [load EXCEPT ![l].pc = "chunk",
                            ![l].chunkIdx = Len(CurrentEntry(l).chunks) + 1,
                            ![l].trace = Append(@, Call("embed_fail", l))]
    /\ UNCHANGED <<documentStore, nextDocumentID, mu, lastClear, chatVars,
                   ctxCancelled, callVars>>

LoadEmbedFailCounted(l) ==
    /\ load[l].pc = "embedding"
    /\ embedFailures < MaxEmbedFailures
    /\ embedFailures' = embedFailures + 1
    /\ load' = [load EXCEPT ![l].pc = "chunk",
                            ![l].chunkIdx = @ + 1,
                            ![l].chunksLoaded = @ + 1,
                            ![l].trace = Append(@, Call("embed_fail", l))]
    /\ UNCHANGED <<documentStore, nextDocumentID, mu, lastClear, chatVars,
                   ctxCancelled, callVars>>

\* getOllamaEmbedding returned an error: the chunk is skipped
LoadEmbedFail(l) ==
    /\ load[l].pc = "embedding"
    /\ embedFailures < MaxEmbedFailures
    /\ embedFailures' = embedFailures + 1
    /\ load' = [load EXCEPT ![l].pc = "chunk",
                            ![l].chunkIdx = @ + 1,
                            ![l].trace = Append(@, Call("embed_fail", l))]
    /\ UNCHANGED <<documentStore, nextDocumentID, mu, lastClear, chatVars,
                   ctxCancelled, callVars>>

\* getOllamaEmbedding returned a vector: the chunk is appended
LoadEmbedOK(l) ==
    /\ load[l].pc = "embedding"
    /\ LET text == CurrentEntry(l).chunks[load[l].chunkIdx]
           newChunk == DocumentChunk(nextDocumentID, text, EmbeddingOf(text),
                                     CurrentEntry(l).name)
       IN /\ documentStore' = Append(documentStore, newChunk)
          /\ nextDocumentID' = nextDocumentID + 1
          /\ load' = [load EXCEPT ![l].pc = "chunk",
                                  ![l].chunkIdx = @ + 1,
                                  ![l].chunksLoaded = @ + 1,
                                  ![l].trace = Append(@, Call("embed_ok", l))]
    /\ UNCHANGED <<mu, embedFailures, lastClear, chatVars, ctxCancelled, callVars>>

LoadPersonalData(l) ==
    \/ LoadLock(l)
    \/ LoadDialogCancel(l)
    \/ LoadClear(l)
    \/ LoadEntry(l)
    \/ LoadChunk(l)
    \/ LoadEmbedFail(l)
    \/ LoadEmbedOK(l)

(***************************************************************************)
(* HandleMessage.                                                          *)
(***************************************************************************)
StreamEvent(content, done, error) ==
    [name |-> "ollamaStreamEvent", Content |-> content, Done |-> done,
     Error |-> error, sources |-> <<>>]

SourcesEvent(sourceInfos) ==
    [name |-> "ragSourcesEvent", Content |-> "", Done |-> FALSE, Error |-> "",
     sources |-> sourceInfos]

SourceInfo(chunk) ==
    [FileName |-> chunk.SourceFile, ChunkID |-> chunk.ID, Score |-> chunk.Score]

\* HandleMessage is called (any number of turns, one at a time; the model
\* follows the goroutine of the latest turn only): the embedding request for
\* the input goes out
HandleMessageStart ==
    /\ chat.pc = "idle"
    /\ \E userInput \in UserInputs :
          chat' = [ChatIdle EXCEPT !.pc = "queryEmbedding", !.userInput = userInput]
    /\ events' = <<>>
    /\ stream' = StreamNone
    /\ UNCHANGED <<loadVars, embedFailures, ctxCancelled, callVars>>

QueryEmbedFailProceeds ==
    /\ chat.pc = "queryEmbedding"
    /\ embedFailures < MaxEmbedFailures
    /\ embedFailures' = embedFailures + 1
    /\ events' = events
    /\ chat' = [chat EXCEPT !.pc = "find"]
    /\ UNCHANGED <<loadVars, stream, ctxCancelled, callVars>>

\* getOllamaEmbedding(userInput) failed: error event, error returned
QueryEmbedFail ==
    /\ chat.pc = "queryEmbedding"
    /\ embedFailures < MaxEmbedFailures
    /\ embedFailures' = embedFailures + 1
    /\ events' = Append(events,
                        StreamEvent("", TRUE, "Error getting embedding for your message"))
    /\ chat' = [chat EXCEPT !.pc = "idle", !.returned = "error"]
    /\ UNCHANGED <<loadVars, stream, ctxCancelled, callVars>>

QueryEmbedOK ==
    /\ chat.pc = "queryEmbedding"
    /\ chat' = [chat EXCEPT !.pc = "find",
                            !.queryEmbedding = EmbeddingOf(chat.userInput)]
    /\ UNCHANGED <<loadVars, embedFailures, events, stream, ctxCancelled, callVars>>

\* the locals after findRelevantChunks read a.documentStore as store.
\* HandleMessage takes no lock: the read happens whatever a.mu is.
Observed(store) ==
    [chat EXCEPT !.scanned = store, !.scanDuring = mu, !.scans = 1]

\* findRelevantChunks: the test len(a.documentStore) == 0
FindLen ==
    /\ chat.pc = "find"
    /\ IF Len(documentStore) = 0
       THEN chat' = [Observed(documentStore) EXCEPT !.pc = "emit",
                                                     !.relevantChunks = <<>>]
       ELSE chat' = [chat EXCEPT !.pc = "scan"]
    /\ UNCHANGED <<loadVars, embedFailures, events, stream, ctxCancelled, callVars>>

\* findRelevantChunks: the range over a.documentStore, the sort and the cut
FindScan ==
    /\ chat.pc = "scan"
    /\ \E result \in RankStore(documentStore, chat.queryEmbedding, HandleMessageTopN) :
          chat' = [Observed(documentStore) EXCEPT !.pc = "emit",
                                                  !.relevantChunks = result]
    /\ UNCHANGED <<loadVars, embedFailures, events, stream, ctxCancelled, callVars>>

\* score >= ragRelevanceThreshold
MeetsThreshold(score) ==
    score.num * RagRelevanceThreshold.den >= RagRelevanceThreshold.num * score.den

UseRAGContextAlways(relevantChunks) == Len(relevantChunks) > 0

\* useRAGContext
UseRAGContext(relevantChunks) ==
    /\ Len(relevantChunks) > 0
    /\ MeetsThreshold(relevantChunks[1].Score)

FinalPromptAugmented(relevantChunks, userInput) ==
    [augmented |-> TRUE,
     context |-> [i \in 1 .. Len(relevantChunks) |->
                     [SourceFile |-> relevantChunks[i].SourceFile,
                      ID |-> relevantChunks[i].ID,
                      Score |-> relevantChunks[i].Score,
                      Text |-> relevantChunks[i].Text]],
     question |-> userInput]

\* the content of finalPrompt: the context blocks in order and the question
FinalPrompt(relevantChunks, userInput) ==
    IF UseRAGContext(relevantChunks)
    THEN [augmented |-> TRUE,
          context |-> [i \in 1 .. Len(relevantChunks) |->
                          [SourceFile |-> relevantChunks[i].SourceFile,
                           ID |-> relevantChunks[i].ID,
                           Score |-> relevantChunks[i].Score,
                           Text |-> relevantChunks[i].Text]],
          question |-> userInput]
    ELSE [augmented |-> FALSE, context |-> <<>>, question |-> userInput]

\* a piece of the text of finalPrompt
Piece(kind, sourceFile, id, text) ==
    [kind |-> kind, SourceFile |-> sourceFile, ID |-> id, Text |-> text]

RECURSIVE ContextPieces(_, _)
\* what the loop over relevantChunks writes to contextBuilder for the first n
\* chunks: a header naming the document and the chunk (and the score to two
\* decimals, which the model leaves out), the chunk's text, a separator
ContextPieces(context, n) ==
    IF n = 0 THEN <<>>
    ELSE ContextPieces(context, n - 1)
           \o << Piece("header", context[n].SourceFile, context[n].ID, ""),
                 Piece("text", <<>>, 0, context[n].Text),
                 Piece(IF n < Len(context) THEN "separator" ELSE "end", <<>>, 0, "") >>

\* the string finalPrompt, as the sequence of the pieces written to it
PromptContent(finalPrompt) ==
    IF finalPrompt.augmented
    THEN << Piece("preamble", <<>>, 0, "") >>
           \o ContextPieces(finalPrompt.context, Len(finalPrompt.context))
           \o << Piece("question", <<>>, 0, finalPrompt.question) >>
    ELSE << Piece("input", <<>>, 0, finalPrompt.question) >>

\* messages := []OllamaChatMessage{{Role: "user", Content: finalPrompt}}
Messages(finalPrompt) ==
    << [Role |-> "user", Content |-> PromptContent(finalPrompt)] >>

\* go a.askOllamaChatRaw(messages)
StreamStarted(messages) ==
    [StreamNone EXCEPT !.pc = "start", !.messages = messages,
                       !.cancelledAt = IF ctxCancelled THEN "before" ELSE ""]

HandleMessageEmitNoSources ==
    /\ chat.pc = "emit"
    /\ events' = events
    /\ chat' = [chat EXCEPT !.pc = "idle",
                            !.finalPrompt = FinalPrompt(chat.relevantChunks,
                                                        chat.userInput),
                            !.generation = TRUE,
                            !.returned = "nil"]
    /\ stream' = StreamStarted(Messages(FinalPrompt(chat.relevantChunks,
                                                     chat.userInput)))
    /\ UNCHANGED <<loadVars, embedFailures, ctxCancelled, callVars>>

\* the rest of HandleMessage: the source event, the prompt, go askOllamaChatRaw
HandleMessageEmit ==
    /\ chat.pc = "emit"
    /\ events' = Append(events,
                        SourcesEvent([i \in 1 .. Len(chat.relevantChunks) |->
                                         SourceInfo(chat.relevantChunks[i])]))
    /\ chat' = [chat EXCEPT !.pc = "idle",
                            !.finalPrompt = FinalPrompt(chat.relevantChunks,
                                                        chat.userInput),
                            !.generation = TRUE,
                            !.returned = "nil"]
    /\ stream' = StreamStarted(Messages(FinalPrompt(chat.relevantChunks,
                                                     chat.userInput)))
    /\ UNCHANGED <<loadVars, embedFailures, ctxCancelled, callVars>>

HandleMessage ==
    \/ HandleMessageStart
    \/ QueryEmbedFail
    \/ QueryEmbedOK
    \/ FindLen
    \/ FindScan
    \/ HandleMessageEmit

Next ==
    \/ \E l \in Loaders : LoadPersonalData(l)
    \/ HandleMessage

Spec == Init /\ [][Next]_vars

(***************************************************************************)
(* askOllamaChatRaw, the goroutine HandleMessage starts, and the           *)
(* cancellation of a.ctx when the application shuts down.                  *)
(***************************************************************************)
StreamLines ==
    { Line(TRUE, FALSE, "", FALSE),
      Line(FALSE, FALSE, "", FALSE),
      Line(FALSE, TRUE, "tok", FALSE),
      Line(FALSE, TRUE, "tok", TRUE),
      Line(FALSE, TRUE, "", TRUE),
      Line(FALSE, TRUE, "", FALSE) }

ErrMarshal == "error marshalling ollama request"
ErrCreate == "error creating ollama request"
ErrSend == "error sending request to ollama"
ErrStatus == "ollama API request failed with status"
ErrUnmarshal == "error unmarshalling stream response"
ErrRead == "error reading stream response"

StreamReturnNoEvent(emitted, errMsg, exit) ==
    /\ events' = emitted
    /\ stream' = [stream EXCEPT !.pc = "returned",
                                !.finalErrorMessage = errMsg,
                                !.exit = exit]

\* a return of askOllamaChatRaw with finalErrorMessage = errMsg: the deferred
\* function emits the final event
StreamReturn(emitted, errMsg, exit) ==
    /\ events' = Append(emitted, StreamEvent("", TRUE, errMsg))
    /\ stream' = [stream EXCEPT !.pc = "returned",
                                !.finalErrorMessage = errMsg,
                                !.exit = exit]

\* json.Marshal and http.NewRequestWithContext
StreamRequest ==
    /\ stream.pc = "start"
    /\ \E outcome \in {"marshal_error", "create_error", "ok"} :
          CASE outcome = "marshal_error" -> StreamReturn(events, ErrMarshal, outcome)
            [] outcome = "create_error" -> StreamReturn(events, ErrCreate, outcome)
            [] OTHER -> /\ stream' = [stream EXCEPT !.pc = "do"]
                        /\ events' = events
    /\ UNCHANGED <<loadVars, embedFailures, chat, ctxCancelled, callVars>>

\* http.DefaultClient.Do(req) returns.  A context cancelled before the call
\* makes it fail; one cancelled while the request is in flight makes it fail
\* unless the response won the race.
StreamDo ==
    /\ stream.pc = "do"
    /\ \E outcome \in {"error", "status_500", "status_200"} :
          /\ outcome # "error" => (~ctxCancelled \/ stream.cancelledAt = "do")
          /\ CASE outcome = "error" ->
                     IF ctxCancelled
                     THEN StreamReturn(events, "", "cancelled")
                     ELSE StreamReturn(events, ErrSend, "send_error")
               [] outcome = "status_500" ->
                     /\ stream' = [stream EXCEPT !.pc = "badStatus"]
                     /\ events' = events
               [] OTHER ->
                     /\ stream' = [stream EXCEPT !.pc = "scan"]
                     /\ events' = events
    /\ UNCHANGED <<loadVars, embedFailures, chat, ctxCancelled, callVars>>

\* resp.StatusCode != http.StatusOK: the body is read, the error is set
StreamBadStatus ==
    /\ stream.pc = "badStatus"
    /\ StreamReturn(events, ErrStatus, "bad_status")
    /\ UNCHANGED <<loadVars, embedFailures, chat, ctxCancelled, callVars>>

StreamScanNoCtxCheck ==
    /\ stream.pc = "scan"
    /\ \E outcome \in {"line", "eof", "read_error"} :
          CASE outcome = "line" ->
                  /\ stream.linesRead < MaxStreamLines
                  /\ \E line \in StreamLines :
                        stream' = [stream EXCEPT !.pc = "line",
                                                 !.line = line,
                                                 !.linesRead = @ + 1]
                  /\ events' = events
            [] outcome = "eof" -> StreamReturn(events, "", "eof")
            [] OTHER -> StreamReturn(events, ErrRead, "read_error")
    /\ UNCHANGED <<loadVars, embedFailures, chat, ctxCancelled, callVars>>

\* scanner.Scan() returns: a line (then the test of a.ctx.Err() at the head of
\* the loop body), the end of the body, or a read error
StreamScan ==
    /\ stream.pc = "scan"
    /\ \E outcome \in {"line", "eof", "read_error"} :
          CASE outcome = "line" ->
                  /\ stream.linesRead < MaxStreamLines
                  /\ IF ctxCancelled
                     THEN StreamReturn(events, "", "cancelled")
                     ELSE /\ \E line \in StreamLines :
                               stream' = [stream EXCEPT !.pc = "line",
                                                        !.line = line,
                                                        !.linesRead = @ + 1]
                          /\ events' = events
            [] outcome = "eof" -> StreamReturn(events, "", "eof")
            [] OTHER ->
                  IF ctxCancelled
                  THEN StreamReturn(events, "", "cancelled")
                  ELSE StreamReturn(events, ErrRead, "read_error")
    /\ UNCHANGED <<loadVars, embedFailures, chat, ctxCancelled, callVars>>

\* the events after the body of the loop emitted the content of a line
WithContent(line) ==
    IF line.Content # ""
    THEN Append(events, StreamEvent(line.Content, FALSE, ""))
    ELSE events

\* the body of the loop for a line, after the test of a.ctx.Err()
StreamLine ==
    /\ stream.pc = "line"
    /\ LET line == stream.line
       IN IF line.empty
          THEN /\ stream' = [stream EXCEPT !.pc = "scan"]
               /\ events' = events
          ELSE IF ~line.valid
          THEN StreamReturn(events, ErrUnmarshal, "malformed")
          ELSE IF line.Done
          THEN /\ events' = Append(WithContent(line), StreamEvent("", TRUE, ""))
               /\ stream' = [stream EXCEPT !.pc = "returned",
                                           !.streamEndedByOllama = TRUE,
                                           !.exit = "done"]
          ELSE /\ events' = WithContent(line)
               /\ stream' = [stream EXCEPT !.pc = "scan"]
    /\ UNCHANGED <<loadVars, embedFailures, chat, ctxCancelled, callVars>>

askOllamaChatRaw ==
    \/ StreamRequest
    \/ StreamDo
    \/ StreamBadStatus
    \/ StreamScan
    \/ StreamLine

\* Wails cancels the context it handed to startup when the application quits
Shutdown ==
    /\ ~ctxCancelled
    /\ ctxCancelled' = TRUE
    /\ stream' = [stream EXCEPT !.cancelledAt = stream.pc,
                                !.emittedAtCancel = Len(events)]
    /\ UNCHANGED <<loadVars, embedFailures, chat, events, callVars>>

\* The chat turn followed to the end of its goroutine, beside one load.
NextChat ==
    \/ LoadPersonalData(1)
    \/ HandleMessage
    \/ askOllamaChatRaw
    \/ Shutdown

SpecChat == Init /\ [][NextChat]_vars

(***************************************************************************)
(* findRelevantChunks called directly: the store, the query vector and     *)
(* topN are drawn from bounded sets, and the call returns one of the       *)
(* slices the function may return.                                         *)
(***************************************************************************)
RankTexts == {"t1", "t3", "t5", "t7", "t8"}

RankQueries == {EmbeddingOf("q1"), EmbeddingOf("q2"), EmbeddingOf("t5")}

RankTopNs == -1 .. 3

\* the stores of up to MaxRankStore records a load can leave: ids 1, 2, ...
RankStores ==
    UNION {{[i \in 1 .. n |->
                DocumentChunk(i, texts[i], EmbeddingOf(texts[i]),
                              <<"d", ".", "t", "x", "t">>)] :
               texts \in [1 .. n -> RankTexts]} : n \in 0 .. MaxRankStore}

InitRank ==
    /\ documentStore \in RankStores
    /\ nextDocumentID = Len(documentStore) + 1
    /\ mu = 0
    /\ load = [l \in Loaders |-> LoadIdle]
    /\ embedFailures = 0
    /\ chat = ChatIdle
    /\ events = <<>>
    /\ rank \in {[pc |-> "call", queryEmbedding |-> q, topN |-> n, result |-> <<>>] :
                    q \in RankQueries, n \in RankTopNs}
    /\ lastClear = 0
    /\ stream = StreamNone
    /\ ctxCancelled = FALSE
    /\ chunker = ChunkerIdle
    /\ similarity = SimilarityIdle
    /\ loop = LoopIdle

RankCall ==
    /\ rank.pc = "call"
    /\ \E result \in findRelevantChunks(documentStore, rank.queryEmbedding, rank.topN) :
          rank' = [rank EXCEPT !.pc = "returned", !.result = result]
    /\ UNCHANGED <<loadVars, embedFailures, chatVars, ctxCancelled, chunker,
                   similarity, loop>>

NextRank == RankCall

SpecRank == InitRank /\ [][NextRank]_vars

(***************************************************************************)
(* The text splitters.  A text is a sequence of characters (runes); the    *)
(* splitters are called directly on texts, sizes and overlaps drawn from   *)
(* bounded sets.                                                           *)
(***************************************************************************)
\* defaultRecursiveSeparators
DefaultRecursiveSeparators ==
    << <<"\n", "\n">>, <<"\n">>, <<".", " ">>, <<"!", " ">>, <<"?", " ">>,
       <<";", " ">>, <<",", " ">>, <<" ">>, <<>> >>

\* the characters unicode.IsSpace accepts, among those of the model
IsSpace(c) == c \in {" ", "\n"}

\* strings.TrimSpace(s) == ""
IsWhitespace(s) == \A i \in DOMAIN s : IsSpace(s[i])

\* strings.Index(text, sep), counted from 1; 0 when sep does not occur
Index(text, sep) ==
    LET found == {i \in 1 .. Len(text) - Len(sep) + 1 :
                     SubSeq(text, i, i + Len(sep) - 1) = sep}
    IN IF found = {} THEN 0
       ELSE CHOOSE i \in found : \A j \in found : i <= j

RECURSIVE Split(_, _)
\* strings.Split(text, sep) for a non-empty sep
Split(text, sep) ==
    LET i == Index(text, sep)
    IN IF i = 0 THEN <<text>>
       ELSE <<SubSeq(text, 1, i - 1)>>
              \o Split(SubSeq(text, i + Len(sep), Len(text)), sep)

RECURSIVE FixedLoop(_, _, _, _)
\* the loop of fixedLengthChunker from position start (counted from 0)
FixedLoop(runes, chunkSizeChars, overlapChars, start) ==
    LET nRunes == Len(runes)
        end == Min(start + chunkSizeChars, nRunes)
        chunk == SubSeq(runes, start + 1, end)
        step == start + chunkSizeChars - overlapChars
        nextStart == IF step <= start /\ nRunes > end THEN start + 1 ELSE step
    IN IF end = nRunes \/ nextStart >= nRunes
       THEN <<chunk>>
       ELSE <<chunk>> \o FixedLoop(runes, chunkSizeChars, overlapChars, nextStart)

\* the overlap fixedLengthChunker and chunkTextRecursive go on with
ClampOverlapChars(chunkSizeChars, overlapChars) ==
    LET nonNegative == IF overlapChars < 0 THEN 0 ELSE overlapChars
        fifth == IF chunkSizeChars \div 5 = 0 /\ chunkSizeChars > 0
                 THEN 1 ELSE chunkSizeChars \div 5
        below == IF nonNegative >= chunkSizeChars THEN fifth ELSE nonNegative
    IN IF chunkSizeChars <= below /\ chunkSizeChars > 0 THEN 0 ELSE below

\* fixedLengthChunker(text, chunkSizeChars, overlapChars)
fixedLengthChunker(text, chunkSizeChars, overlapChars) ==
    IF text = <<>> \/ chunkSizeChars <= 0 THEN <<>>
    ELSE FixedLoop(text, chunkSizeChars,
                   ClampOverlapChars(chunkSizeChars, overlapChars), 0)

RECURSIVE MergePartsIgnoresSeparator(_, _, _, _, _, _)
MergePartsIgnoresSeparator(goodParts, k, currentSeparator, chunkSizeChars, currentBuffer, finalChunks) ==
    IF k > Len(goodParts)
    THEN IF Len(currentBuffer) > 0 THEN Append(finalChunks, currentBuffer)
         ELSE finalChunks
    ELSE LET part == goodParts[k]
         IN IF /\ Len(currentBuffer) + Len(part) > chunkSizeChars
               /\ Len(currentBuffer) > 0
            THEN MergePartsIgnoresSeparator(goodParts, k + 1, currentSeparator,
                                            chunkSizeChars, part,
                                            Append(finalChunks, currentBuffer))
            ELSE MergePartsIgnoresSeparator(goodParts, k + 1, currentSeparator,
                                            chunkSizeChars,
                                            IF Len(currentBuffer) > 0
                                            THEN currentBuffer \o currentSeparator \o part
                                            ELSE part,
                                            finalChunks)

RECURSIVE MergeParts(_, _, _, _, _, _)
\* the merge loop of doRecursiveSplit from part k on, with currentBuffer and
\* finalChunks as they are, and the flush of the buffer after the loop
MergeParts(goodParts, k, currentSeparator, chunkSizeChars, currentBuffer, finalChunks) ==
    IF k > Len(goodParts)
    THEN IF Len(currentBuffer) > 0 THEN Append(finalChunks, currentBuffer)
         ELSE finalChunks
    ELSE LET part == goodParts[k]
             sepLenRunes == IF Len(currentBuffer) > 0 THEN Len(currentSeparator)
                            ELSE 0
         IN IF /\ Len(currentBuffer) + sepLenRunes + Len(part) > chunkSizeChars
               /\ Len(currentBuffer) > 0
            THEN MergeParts(goodParts, k + 1, currentSeparator, chunkSizeChars,
                            part, Append(finalChunks, currentBuffer))
            ELSE MergeParts(goodParts, k + 1, currentSeparator, chunkSizeChars,
                            IF Len(currentBuffer) > 0
                            THEN currentBuffer \o currentSeparator \o part
                            ELSE part,
                            finalChunks)

RECURSIVE doRecursiveSplit(_, _, _, _)
RECURSIVE GoodParts(_, _, _, _, _)
\* goodParts after the loop over the first n splits
GoodParts(splits, n, chunkSizeChars, overlapChars, remainingSeparators) ==
    IF n = 0 THEN <<>>
    ELSE LET before == GoodParts(splits, n - 1, chunkSizeChars, overlapChars,
                                 remainingSeparators)
             part == splits[n]
         IN IF part = <<>> THEN before
            ELSE IF Len(part) > chunkSizeChars
            THEN before \o doRecursiveSplit(part, chunkSizeChars, overlapChars,
                                            remainingSeparators)
            ELSE Append(before, part)

\* doRecursiveSplit(text, chunkSizeChars, overlapChars, separators)
doRecursiveSplit(text, chunkSizeChars, overlapChars, separators) ==
    IF text = <<>> THEN <<>>
    ELSE IF /\ Len(text) <= chunkSizeChars
            /\ \/ Len(separators) = 0
               \/ Len(separators) = 1 /\ separators[1] = <<>>
    THEN <<text>>
    ELSE IF Len(separators) = 0
    THEN fixedLengthChunker(text, chunkSizeChars, overlapChars)
    ELSE IF separators[1] = <<>>
    THEN fixedLengthChunker(text, chunkSizeChars, overlapChars)
    ELSE LET currentSeparator == separators[1]
             splits == Split(text, currentSeparator)
             goodParts == GoodParts(splits, Len(splits), chunkSizeChars,
                                    overlapChars, Tail(separators))
             finalChunks == MergeParts(goodParts, 1, currentSeparator,
                                       chunkSizeChars, <<>>, <<>>)
         IN SelectSeq(finalChunks, LAMBDA chunk : ~IsWhitespace(chunk))

\* chunkTextRecursive(text, chunkSizeChars, overlapChars)
chunkTextRecursive(text, chunkSizeChars, overlapChars) ==
    IF chunkSizeChars <= 0
    THEN IF text = <<>> THEN <<>> ELSE <<text>>
    ELSE doRecursiveSplit(text, chunkSizeChars,
                          ClampOverlapChars(chunkSizeChars, overlapChars),
                          DefaultRecursiveSeparators)

RECURSIVE FieldsLoop(_, _, _, _)
\* strings.Fields from character i on, with the word being read and the words
\* read so far
FieldsLoop(text, i, word, words) ==
    IF i > Len(text)
    THEN IF word = <<>> THEN words ELSE Append(words, word)
    ELSE IF IsSpace(text[i])
    THEN FieldsLoop(text, i + 1, <<>>,
                    IF word = <<>> THEN words ELSE Append(words, word))
    ELSE FieldsLoop(text, i + 1, Append(word, text[i]), words)

\* strings.Fields(text)
Fields(text) == FieldsLoop(text, 1, <<>>, <<>>)

RECURSIVE Join(_, _)
\* strings.Join(words, sep)
Join(words, sep) ==
    IF Len(words) = 0 THEN <<>>
    ELSE IF Len(words) = 1 THEN words[1]
    ELSE words[1] \o sep \o Join(Tail(words), sep)

\* chunkSize = 200 when chunkSize <= 0, in words
DefaultChunkSizeWords == 200

RECURSIVE ChunkTextLoop(_, _, _, _)
\* the loop of chunkText from word i on (counted from 0)
ChunkTextLoop(words, chunkSize, overlap, i) ==
    LET end == Min(i + chunkSize, Len(words))
        chunk == Join(SubSeq(words, i + 1, end), <<" ">>)
        next == i + chunkSize - overlap
    IN IF next < Len(words)
       THEN <<chunk>> \o ChunkTextLoop(words, chunkSize, overlap, next)
       ELSE <<chunk>>

\* chunkText(text, chunkSize, overlap), the splitter by words
chunkText(text, chunkSize, overlap) ==
    LET size == IF chunkSize <= 0 THEN DefaultChunkSizeWords ELSE chunkSize
        nonNegative == IF overlap < 0 THEN 0 ELSE overlap
        below == IF nonNegative >= size THEN size \div 4 ELSE nonNegative
        words == Fields(text)
    IN IF Len(words) = 0 THEN <<>> ELSE ChunkTextLoop(words, size, below, 0)

Splitters == {"fixedLengthChunker", "chunkTextRecursive", "chunkText"}

\* the characters of the texts
Alphabet == {"a", "b", " ", "."}

Texts == UNION {[1 .. n -> Alphabet] : n \in 0 .. MaxTextLen}

ChunkSizes == 0 .. MaxChunkSize

Overlaps == -1 .. MaxChunkSize

\* the chunks a splitter returns
SplitWith(splitter, text, chunkSize, overlap) ==
    CASE splitter = "fixedLengthChunker" ->
            fixedLengthChunker(text, chunkSize, overlap)
      [] splitter = "chunkTextRecursive" ->
            chunkTextRecursive(text, chunkSize, overlap)
      [] OTHER -> chunkText(text, chunkSize, overlap)

InitChunk ==
    /\ documentStore = <<>>
    /\ nextDocumentID = 1
    /\ mu = 0
    /\ load = [l \in Loaders |-> LoadIdle]
    /\ embedFailures = 0
    /\ chat = ChatIdle
    /\ events = <<>>
    /\ rank = RankIdle
    /\ lastClear = 0
    /\ stream = StreamNone
    /\ ctxCancelled = FALSE
    /\ chunker \in {[pc |-> "call", splitter |-> s, text |-> t, chunkSize |-> n,
                     overlap |-> o, result |-> <<>>] :
                       s \in Splitters, t \in Texts, n \in ChunkSizes,
                       o \in Overlaps}
    /\ similarity = SimilarityIdle
    /\ loop = LoopIdle

ChunkCall ==
    /\ chunker.pc = "call"
    /\ chunker' = [chunker EXCEPT
                     !.pc = "returned",
                     !.result = SplitWith(chunker.splitter, chunker.text,
                                          chunker.chunkSize, chunker.overlap)]
    /\ UNCHANGED <<loadVars, embedFailures, chatVars, ctxCancelled, rank,
                   similarity, loop>>

NextChunk == ChunkCall

SpecChunk == InitChunk /\ [][NextChunk]_vars

(***************************************************************************)
(* LoadPersonalData alone.  sync.Mutex hands a free mutex to a goroutine   *)
(* blocked in Lock: a call that stays able to lock does lock.              *)
(***************************************************************************)
NextLoad == \E l \in Loaders : LoadPersonalData(l)

SpecLoad == Init /\ [][NextLoad]_vars /\ \A l \in Loaders : WF_vars(LoadLock(l))

(***************************************************************************)
(* The loops of the splitters, one iteration per step.  The call of        *)
(* chunkTextRecursive is one step: it loops only inside fixedLengthChunker.*)
(***************************************************************************)
LoopAlphabet == {"a", " "}

LoopTexts == UNION {[1 .. n -> LoopAlphabet] : n \in 0 .. MaxTextLen}

InitLoop ==
    /\ documentStore = <<>>
    /\ nextDocumentID = 1
    /\ mu = 0
    /\ load = [l \in Loaders |-> LoadIdle]
    /\ embedFailures = 0
    /\ chat = ChatIdle
    /\ events = <<>>
    /\ rank = RankIdle
    /\ lastClear = 0
    /\ stream = StreamNone
    /\ ctxCancelled = FALSE
    /\ chunker = ChunkerIdle
    /\ similarity = SimilarityIdle
    /\ loop = LoopIdle

LoopUnchanged ==
    UNCHANGED <<loadVars, embedFailures, chatVars, ctxCancelled, rank, chunker,
                similarity>>

\* a splitter is called
LoopCall ==
    /\ loop.pc = "idle"
    /\ \E s \in Splitters, t \in LoopTexts, n \in ChunkSizes, o \in Overlaps :
          loop' = [LoopIdle EXCEPT !.pc = "call", !.splitter = s, !.text = t,
                                  !.chunkSize = n, !.overlap = o]
    /\ LoopUnchanged

\* fixedLengthChunker up to its loop: the early return and the overlap
FixedLengthChunkerEnter ==
    /\ loop.pc = "call"
    /\ loop.splitter = "fixedLengthChunker"
    /\ IF loop.text = <<>> \/ loop.chunkSize <= 0
       THEN loop' = [loop EXCEPT !.pc = "returned"]
       ELSE loop' = [loop EXCEPT !.pc = "loop",
                                 !.units = loop.text,
                                 !.size = loop.chunkSize,
                                 !.overlapUsed = ClampOverlapChars(loop.chunkSize,
                                                                   loop.overlap),
                                 !.start = 0]
    /\ LoopUnchanged

\* one iteration of the loop of fixedLengthChunker
FixedLengthChunkerStep ==
    /\ loop.pc = "loop"
    /\ loop.splitter = "fixedLengthChunker"
    /\ LET nRunes == Len(loop.units)
           end == Min(loop.start + loop.size, nRunes)
           chunks == Append(loop.chunks, SubSeq(loop.units, loop.start + 1, end))
           spans == Append(loop.spans, [from |-> loop.start, to |-> end])
           step == loop.start + loop.size - loop.overlapUsed
           nextStart == IF step <= loop.start /\ nRunes > end
                        THEN loop.start + 1 ELSE step
       IN IF end = nRunes
          THEN loop' = [loop EXCEPT !.pc = "returned", !.chunks = chunks,
                                    !.spans = spans]
          ELSE loop' = [loop EXCEPT !.pc = IF nextStart >= nRunes THEN "returned"
                                           ELSE "loop",
                                    !.chunks = chunks, !.spans = spans,
                                    !.start = nextStart]
    /\ LoopUnchanged

ChunkTextEnterNoClamp ==
    /\ loop.pc = "call"
    /\ loop.splitter = "chunkText"
    /\ LET size == IF loop.chunkSize <= 0 THEN DefaultChunkSizeWords
                   ELSE loop.chunkSize
           nonNegative == IF loop.overlap < 0 THEN 0 ELSE loop.overlap
           words == Fields(loop.text)
       IN loop' = [loop EXCEPT !.pc = IF Len(words) = 0 THEN "returned" ELSE "loop",
                               !.units = words,
                               !.size = size,
                               !.overlapUsed = nonNegative,
                               !.start = 0]
    /\ LoopUnchanged

\* chunkText up to its loop: the chunk size and the overlap, strings.Fields,
\* the early return
ChunkTextEnter ==
    /\ loop.pc = "call"
    /\ loop.splitter = "chunkText"
    /\ LET size == IF loop.chunkSize <= 0 THEN DefaultChunkSizeWords
                   ELSE loop.chunkSize
           nonNegative == IF loop.overlap < 0 THEN 0 ELSE loop.overlap
           below == IF nonNegative >= size THEN size \div 4 ELSE nonNegative
           words == Fields(loop.text)
       IN loop' = [loop EXCEPT !.pc = IF Len(words) = 0 THEN "returned" ELSE "loop",
                               !.units = words,
                               !.size = size,
                               !.overlapUsed = below,
                               !.start = 0]
    /\ LoopUnchanged

\* one iteration of the loop of chunkText
ChunkTextStep ==
    /\ loop.pc = "loop"
    /\ loop.splitter = "chunkText"
    /\ LET end == Min(loop.start + loop.size, Len(loop.units))
           chunks == Append(loop.chunks,
                            Join(SubSeq(loop.units, loop.start + 1, end), <<" ">>))
           spans == Append(loop.spans, [from |-> loop.start, to |-> end])
           i == loop.start + loop.size - loop.overlapUsed
       IN loop' = [loop EXCEPT !.pc = IF i < Len(loop.units) THEN "loop"
                                      ELSE "returned",
                               !.chunks = chunks, !.spans = spans, !.start = i]
    /\ LoopUnchanged

\* chunkTextRecursive, whole
ChunkTextRecursiveCall ==
    /\ loop.pc = "call"
    /\ loop.splitter = "chunkTextRecursive"
    /\ loop' = [loop EXCEPT !.pc = "returned",
                            !.units = loop.text,
                            !.chunks = chunkTextRecursive(loop.text, loop.chunkSize,
                                                          loop.overlap)]
    /\ LoopUnchanged

NextLoop ==
    \/ LoopCall
    \/ FixedLengthChunkerEnter
    \/ FixedLengthChunkerStep
    \/ ChunkTextEnter
    \/ ChunkTextStep
    \/ ChunkTextRecursiveCall

\* the steps of the two loops
LoopRuns ==
    \/ FixedLengthChunkerEnter
    \/ FixedLengthChunkerStep
    \/ ChunkTextEnter
    \/ ChunkTextStep

\* a splitter runs without suspension: a loop that can take a step takes it
SpecLoop == InitLoop /\ [][NextLoop]_vars /\ WF_vars(LoopRuns)

(***************************************************************************)
(* cosineSimilarity called directly on two vectors drawn from a bounded    *)
(* set.                                                                    *)
(***************************************************************************)
Components == -1 .. 1

Vectors == UNION {[1 .. n -> Components] : n \in 0 .. MaxVecLen}

InitSimilarity ==
    /\ documentStore = <<>>
    /\ nextDocumentID = 1
    /\ mu = 0
    /\ load = [l \in Loaders |-> LoadIdle]
    /\ embedFailures = 0
    /\ chat = ChatIdle
    /\ events = <<>>
    /\ rank = RankIdle
    /\ lastClear = 0
    /\ stream = StreamNone
    /\ ctxCancelled = FALSE
    /\ chunker = ChunkerIdle
    /\ similarity \in {[pc |-> "call", vecA |-> a, vecB |-> b, value |-> ZeroScore,
                        err |-> ""] : a \in Vectors, b \in Vectors}
    /\ loop = LoopIdle

SimilarityCall ==
    /\ similarity.pc = "call"
    /\ LET returned == cosineSimilarity(similarity.vecA, similarity.vecB)
       IN similarity' = [similarity EXCEPT !.pc = "returned",
                                           !.value = returned.value,
                                           !.err = returned.err]
    /\ UNCHANGED <<loadVars, embedFailures, chatVars, ctxCancelled, rank, chunker,
                   loop>>

NextSimilarity == SimilarityCall

SpecSimilarity == InitSimilarity /\ [][NextSimilarity]_vars

(***************************************************************************)
(* Properties.                                                             *)
(***************************************************************************)
Returned(l) == load[l].pc = "done"

InLoad(l) == load[l].pc \in {"dialog", "entry", "chunk", "embedding"}

Finished(l) == load[l].pc \in {"done", "forgotten"}

IsCancelled(l) ==
    \/ load[l].dialogErr = "shellItem is nil"
    \/ load[l].dialogErr = "" /\ load[l].dir = ""

Succeeded(l) == Returned(l) /\ load[l].result.msg = "Successfully processed"

EntriesOf(l) == Directories[load[l].dir].entries

CallsOfKind(l, kind) == SelectSeq(load[l].trace, LAMBDA c : c.kind = kind)

\* a name whose last four characters are ".txt" in any letter case
EndsInTxtAnyCase(name) ==
    /\ Len(name) >= 4
    /\ name[Len(name) - 3] = "."
    /\ name[Len(name) - 2] \in {"t", "T"}
    /\ name[Len(name) - 1] \in {"x", "X"}
    /\ name[Len(name)] \in {"t", "T"}

IsTextFile(entry) == ~entry.isDir /\ EndsInTxtAnyCase(entry.name)

\* the store a call of loader l produces on its own from the embedding calls
\* that succeeded, in the order it made them
ProducedAlone(l) ==
    LET ok == CallsOfKind(l, "embed_ok")
    IN [i \in 1 .. Len(ok) |->
           DocumentChunk(i, EntriesOf(l)[ok[i].entry].chunks[ok[i].chunk],
                         EmbeddingOf(EntriesOf(l)[ok[i].entry].chunks[ok[i].chunk]),
                         EntriesOf(l)[ok[i].entry].name)]

\* C1: a HandleMessage retrieval that reads the store while a load holds the
\* mutex sees the complete store as that load found it or as that load left
\* it, never the cleared or a partly repopulated store.
C1_ReaderSeesOldOrNewStore ==
    \A l \in Loaders :
        (chat.scans = 1 /\ chat.scanDuring = l /\ Returned(l))
            => chat.scanned \in {load[l].preStore, load[l].postStore}

\* C2: a load holds the mutex from before the clear until it returns, also
\* while an embedding call is in flight, so loads never interleave: once all
\* loads have returned the store is what the call that cleared last produced
\* on its own.
C2_LoadsSerialized ==
    /\ \A l \in Loaders : InLoad(l) => mu = l
    /\ ((\A l \in Loaders : Finished(l)) /\ lastClear # 0)
          => documentStore = ProducedAlone(lastClear)

C2_Witness ==
    /\ Succeeded(1) /\ Succeeded(2)
    /\ load[1].dir # load[2].dir
    /\ load[1].result.chunks > 0 /\ load[2].result.chunks > 0
    /\ mu = 0

\* C3: a cancelled directory selection ("shellItem is nil" or an empty path)
\* leaves documentStore and nextDocumentID as the call found them, makes no
\* file read and no embedding call, and returns a cancellation status.
C3_CancelLeavesStore ==
    \A l \in Loaders :
        (Returned(l) /\ IsCancelled(l))
            => /\ load[l].postStore = load[l].preStore
               /\ load[l].postNextID = load[l].preNextID
               /\ load[l].trace = <<>>
               /\ load[l].result \in {CancelledClosed, CancelledNoDir}

C3_Witness ==
    \E l \in Loaders :
        /\ Returned(l) /\ IsCancelled(l)
        /\ Len(load[l].preStore) > 0
        /\ documentStore = load[l].preStore

\* C4: when the selected directory cannot be enumerated the load returns the
\* directory error with the store cleared (no record, next id 1) and has read
\* no file and made no embedding call.
C4_ReadDirErrorClearsStore ==
    \A l \in Loaders :
        (Returned(l) /\ load[l].dir # "" /\ ~Directories[load[l].dir].readable)
            => /\ load[l].result = ReadDirError(load[l].dir)
               /\ load[l].postStore = <<>>
               /\ load[l].postNextID = 1
               /\ load[l].trace = <<>>

C4_Witness ==
    \E l \in Loaders :
        /\ Returned(l)
        /\ load[l].result.msg = "error reading directory"
        /\ Len(load[l].preStore) > 0
        /\ documentStore = <<>>

\* C5: a failed file read or a failed chunk embedding never aborts the load:
\* the failed item contributes no record, every selected file is still read,
\* every chunk of every file read is still sent to the embedding service, and
\* the load returns the success summary.
C5_FailuresAreLocal ==
    \A l \in Loaders :
        (Returned(l) /\ load[l].dir # "" /\ Directories[load[l].dir].readable)
            => /\ load[l].result.msg = "Successfully processed"
               /\ \A e \in DOMAIN EntriesOf(l) :
                     IsTextFile(EntriesOf(l)[e]) =>
                        /\ \E i \in DOMAIN load[l].trace :
                              /\ load[l].trace[i].entry = e
                              /\ load[l].trace[i].kind =
                                    IF EntriesOf(l)[e].readable THEN "read_ok"
                                                                ELSE "read_fail"
                        /\ EntriesOf(l)[e].readable =>
                              \A c \in DOMAIN EntriesOf(l)[e].chunks :
                                  \E i \in DOMAIN load[l].trace :
                                      /\ load[l].trace[i].entry = e
                                      /\ load[l].trace[i].chunk = c
                                      /\ load[l].trace[i].kind \in {"embed_ok", "embed_fail"}
               /\ \A i \in DOMAIN load[l].trace :
                     LET call == load[l].trace[i]
                     IN /\ call.kind = "read_fail" =>
                              \A r \in DOMAIN load[l].postStore :
                                  load[l].postStore[r].SourceFile
                                      # EntriesOf(l)[call.entry].name
                        /\ call.kind = "embed_fail" =>
                              \A r \in DOMAIN load[l].postStore :
                                  ~ /\ load[l].postStore[r].SourceFile
                                          = EntriesOf(l)[call.entry].name
                                    /\ load[l].postStore[r].Text
                                          = EntriesOf(l)[call.entry].chunks[call.chunk]

C5_Witness ==
    \E l \in Loaders :
        /\ Succeeded(l)
        /\ load[l].dir = "dirA"
        /\ \E i \in DOMAIN load[l].trace :
              /\ load[l].trace[i] = [kind |-> "embed_fail", entry |-> 1, chunk |-> 1]
        /\ \E r \in DOMAIN load[l].postStore : load[l].postStore[r].Text = "t2"
        /\ \E i \in DOMAIN load[l].trace : load[l].trace[i].kind = "read_fail"
        /\ \E r \in DOMAIN load[l].postStore : load[l].postStore[r].Text = "t3"

\* C6: in the summary of a completed load the file count is the number of
\* selected files that were read, whatever became of their chunks, and the
\* chunk count is the number of embedding calls that succeeded, which is the
\* number of records in the store at return.
C6_SummaryCounts ==
    \A l \in Loaders :
        Succeeded(l)
            => /\ load[l].result.files = Len(CallsOfKind(l, "read_ok"))
               /\ load[l].result.files =
                     Cardinality({e \in DOMAIN EntriesOf(l) :
                                     IsTextFile(EntriesOf(l)[e]) /\ EntriesOf(l)[e].readable})
               /\ load[l].result.chunks = Len(CallsOfKind(l, "embed_ok"))
               /\ load[l].result.chunks = Len(load[l].postStore)

C6_Witness ==
    \E l \in Loaders :
        /\ Succeeded(l)
        /\ load[l].dir = "dirB"
        /\ Len(CallsOfKind(l, "embed_fail")) = 1
        /\ load[l].result.files = 1
        /\ load[l].result.chunks = 4

\* C7: every record of the store is named after an entry of the loaded
\* directory that is not a subdirectory and whose name ends in ".txt" in any
\* letter case, and holds one of that entry's chunks; the other entries are
\* never read, are not counted in the summary and cause no error.
C7_OnlyTextFiles ==
    /\ \A r \in DOMAIN documentStore :
          /\ lastClear # 0
          /\ \E e \in DOMAIN EntriesOf(lastClear) :
                /\ EntriesOf(lastClear)[e].name = documentStore[r].SourceFile
                /\ IsTextFile(EntriesOf(lastClear)[e])
                /\ \E c \in DOMAIN EntriesOf(lastClear)[e].chunks :
                      EntriesOf(lastClear)[e].chunks[c] = documentStore[r].Text
    /\ \A l \in Loaders :
          load[l].dir # "" =>
             /\ \A i \in DOMAIN load[l].trace :
                   IsTextFile(EntriesOf(l)[load[l].trace[i].entry])
             /\ load[l].filesProcessed
                   <= Cardinality({e \in DOMAIN EntriesOf(l) : IsTextFile(EntriesOf(l)[e])})
             /\ (Returned(l) /\ Directories[load[l].dir].readable) => Succeeded(l)

C7_Witness ==
    \E l \in Loaders :
        /\ Succeeded(l)
        /\ load[l].dir = "dirA"
        /\ load[l].result.files = 2
        /\ documentStore = load[l].postStore
        /\ \E r \in DOMAIN documentStore :
              documentStore[r].SourceFile = <<"B", ".", "T", "X", "T">>

\* the place of a record in the directory of the load that cleared last: the
\* index of its file among the entries and of its text among the file's chunks
PlaceOf(record) ==
    LET e == CHOOSE e \in DOMAIN EntriesOf(lastClear) :
                 EntriesOf(lastClear)[e].name = record.SourceFile
    IN <<e, CHOOSE c \in DOMAIN EntriesOf(lastClear)[e].chunks :
                EntriesOf(lastClear)[e].chunks[c] = record.Text>>

PlaceBefore(a, b) == a[1] < b[1] \/ (a[1] = b[1] /\ a[2] < b[2])

\* C8: at all times, also after skipped files, skipped chunks and reloads,
\* the i-th record of the store has id i, nextDocumentID is the record count
\* plus 1, and the records are in file-enumeration order, then chunk order
\* (each record's place is before the next record's).
C8_IdsSequential ==
    /\ \A i \in DOMAIN documentStore : documentStore[i].ID = i
    /\ nextDocumentID = Len(documentStore) + 1
    /\ \A i \in 1 .. Len(documentStore) - 1 :
          PlaceBefore(PlaceOf(documentStore[i]), PlaceOf(documentStore[i + 1]))

C8_Witness ==
    \E l \in Loaders :
        /\ Succeeded(l)
        /\ lastClear = l
        /\ Len(load[l].preStore) > 0
        /\ Len(CallsOfKind(l, "embed_fail")) > 0
        /\ Len(CallsOfKind(l, "read_fail")) > 0
        /\ Len(documentStore) >= 2

\* the records of the store the scan scores: a non-empty vector of the query's
\* length
ScoredRecords ==
    {k \in DOMAIN documentStore :
        /\ Len(documentStore[k].Embedding) # 0
        /\ Len(documentStore[k].Embedding) = Len(rank.queryEmbedding)}

ScoreOf(k) == cosineSimilarity(rank.queryEmbedding, documentStore[k].Embedding).value

ReturnedIDs == {rank.result[i].ID : i \in DOMAIN rank.result}

\* C9: findRelevantChunks(query, N) returns at most N records (3 when
\* N <= 0), each a record of the store with its score, in descending order of
\* score, and no scored record left out scores strictly higher than a
\* returned one; on an empty store it returns the empty sequence.
C9_TopNDescending ==
    rank.pc = "returned" =>
        /\ Len(rank.result) <= (IF rank.topN <= 0 THEN 3 ELSE rank.topN)
        /\ \A i, j \in DOMAIN rank.result :
              i < j => /\ ~ScoreGreater(rank.result[j].Score, rank.result[i].Score)
                       /\ rank.result[i].ID # rank.result[j].ID
        /\ \A i \in DOMAIN rank.result :
              \E k \in ScoredRecords :
                  rank.result[i] = [documentStore[k] EXCEPT !.Score = ScoreOf(k)]
        /\ \A k \in ScoredRecords :
              documentStore[k].ID \notin ReturnedIDs =>
                  \A i \in DOMAIN rank.result :
                      ~ScoreGreater(ScoreOf(k), rank.result[i].Score)
        /\ Len(documentStore) = 0 => rank.result = <<>>

C9_Witness ==
    /\ rank.pc = "returned"
    /\ rank.topN = 0
    /\ Len(documentStore) = 4
    /\ Len(rank.result) = 3
    /\ ScoreGreater(rank.result[1].Score, rank.result[3].Score)
    /\ \E k \in ScoredRecords :
          /\ documentStore[k].ID \notin ReturnedIDs
          /\ ScoreGreater(rank.result[3].Score, ScoreOf(k))

\* C10: of two records with equal scores findRelevantChunks puts the one with
\* the lower id first, and when only one of them fits in the top N it returns
\* the one with the lower id.
C10_TiesLowerIdFirst ==
    rank.pc = "returned" =>
        /\ \A i, j \in DOMAIN rank.result :
              (i < j /\ rank.result[i].Score = rank.result[j].Score)
                  => rank.result[i].ID < rank.result[j].ID
        /\ \A k \in ScoredRecords :
              documentStore[k].ID \notin ReturnedIDs =>
                  \A i \in DOMAIN rank.result :
                      rank.result[i].Score = ScoreOf(k)
                          => rank.result[i].ID < documentStore[k].ID

\* a vector with no component other than 0 (the empty vector included)
IsZeroVector(vec) == \A i \in DOMAIN vec : vec[i] = 0

\* C11: a stored record whose vector is all-zero or empty is never the
\* top-ranked result of findRelevantChunks, whatever the store and the query.
\* (findRelevantChunks returns a slice only: it has no error to report.)
C11_ZeroVectorNeverTop ==
    (rank.pc = "returned" /\ Len(rank.result) > 0)
        => ~IsZeroVector(rank.result[1].Embedding)

\* go askOllamaChatRaw was executed in the current turn
GenerationStarted == stream.pc # "none"

\* the content of the single message handed to askOllamaChatRaw
MessageContent == stream.messages[1].Content

\* score < 0.5, on the squared scale of the scores
BelowHalf(score) == 4 * score.num < score.den

\* the texts of a prompt's context blocks, in order
ContextTexts(content) ==
    LET blocks == SelectSeq(content, LAMBDA piece : piece.kind = "text")
    IN [i \in 1 .. Len(blocks) |-> blocks[i].Text]

\* C12: retrieved context is used only when the top-ranked score reaches 0.5:
\* with a top score below 0.5 the message handed to generation is exactly the
\* raw user input, and with a top score of at least 0.5 it is the augmented
\* prompt holding every returned chunk's text, in rank order, followed by the
\* literal user question.
C12_ThresholdGate ==
    (GenerationStarted /\ Len(chat.relevantChunks) > 0) =>
        /\ Len(stream.messages) = 1
        /\ stream.messages[1].Role = "user"
        /\ IF BelowHalf(chat.relevantChunks[1].Score)
           THEN MessageContent = << Piece("input", <<>>, 0, chat.userInput) >>
           ELSE /\ MessageContent[1].kind = "preamble"
                /\ ContextTexts(MessageContent)
                      = [i \in 1 .. Len(chat.relevantChunks) |->
                            chat.relevantChunks[i].Text]
                /\ MessageContent[Len(MessageContent)]
                      = Piece("question", <<>>, 0, chat.userInput)

\* a turn on a complete store whose top score is below 0.5 was answered from
\* the raw input
C12_Witness ==
    /\ stream.pc = "returned"
    /\ chat.scanDuring = 0
    /\ Len(chat.relevantChunks) = 3
    /\ BelowHalf(chat.relevantChunks[1].Score)
    /\ MessageContent = << Piece("input", <<>>, 0, chat.userInput) >>

\* the source-list events of the current turn
SourceEvents == SelectSeq(events, LAMBDA e : e.name = "ragSourcesEvent")

\* the stream events of the current turn
StreamEvents == SelectSeq(events, LAMBDA e : e.name = "ollamaStreamEvent")

\* the HandleMessage call of the current turn has returned
TurnReturned == chat.pc = "idle" /\ chat.returned # ""

ContextSources(content) ==
    LET headers == SelectSeq(content, LAMBDA piece : piece.kind = "header")
    IN [i \in 1 .. Len(headers) |->
           [FileName |-> headers[i].SourceFile, ChunkID |-> headers[i].ID]]

\* the chunks a source-list event names, in order
EmittedSources(event) ==
    [i \in 1 .. Len(event.sources) |->
        [FileName |-> event.sources[i].FileName,
         ChunkID |-> event.sources[i].ChunkID]]

\* C14: the source list emitted for a turn names exactly the sources used in
\* the prompt, in rank order; when the prompt handed to generation is the
\* unmodified user input (empty store, no scored record, or top score below
\* the threshold) the emitted source list is empty.
C14_SourcesAreThoseUsed ==
    GenerationStarted =>
        /\ EmittedSources(SourceEvents[1]) = ContextSources(MessageContent)
        /\ MessageContent = << Piece("input", <<>>, 0, chat.userInput) >>
              => SourceEvents[1].sources = <<>>

\* the event HandleMessage emits when the query embedding failed
QueryEmbedErrorEvent ==
    StreamEvent("", TRUE, "Error getting embedding for your message")

\* C15: when the embedding call for the user's query fails, HandleMessage
\* returns an error, reports it to the presentation layer as a terminal
\* stream event carrying the error, and never starts generation: no goroutine,
\* no content event.
C15_QueryEmbedFailureFailsTurn ==
    /\ (TurnReturned /\ chat.queryEmbedding = <<>>) =>
          /\ chat.returned = "error"
          /\ events = << QueryEmbedErrorEvent >>
          /\ ~GenerationStarted
          /\ ~chat.generation
    /\ (TurnReturned /\ chat.returned = "error") => chat.queryEmbedding = <<>>
    /\ GenerationStarted => chat.queryEmbedding # <<>>

C15_Witness ==
    /\ TurnReturned
    /\ chat.returned = "error"
    /\ Len(documentStore) > 0
    /\ events = << QueryEmbedErrorEvent >>

\* the call's query was embedded and findRelevantChunks found the store empty
FoundStoreEmpty ==
    /\ chat.queryEmbedding # <<>>
    /\ chat.scans = 1
    /\ chat.scanned = <<>>

TerminalEvents == {i \in DOMAIN events : events[i].Done}

\* the return statements of askOllamaChatRaw that follow an error
ErrorExits ==
    {"marshal_error", "create_error", "send_error", "bad_status", "malformed",
     "read_error"}

\* the other ways out: the service's done flag, the end of the body without
\* it, and a cancelled context
QuietExits == {"done", "eof", "cancelled"}

\* the turn is over: its goroutine returned, or its query embedding failed
TurnOver ==
    \/ stream.pc = "returned"
    \/ TurnReturned /\ chat.returned = "error"

\* C17: a chat turn has one terminal stream event (Done = true), emitted when
\* the turn ends, whichever way askOllamaChatRaw returns or when the query
\* embedding fails: it is the last event of the turn, every content event has
\* Done = false and comes before it, and it carries an error text exactly
\* when the turn ended in error.
C17_OneTerminalEvent ==
    /\ Cardinality(TerminalEvents) <= 1
    /\ \A i \in TerminalEvents :
          /\ i = Len(events)
          /\ events[i].name = "ollamaStreamEvent"
          /\ events[i].Content = ""
    /\ \A i \in DOMAIN events :
          (events[i].name = "ollamaStreamEvent" /\ ~events[i].Done)
              => events[i].Content # "" /\ events[i].Error = ""
    /\ TurnOver <=> TerminalEvents # {}
    /\ stream.pc = "returned" =>
          /\ stream.exit \in ErrorExits \cup QuietExits
          /\ events[Len(events)].Error # "" <=> stream.exit \in ErrorExits
    /\ (TurnReturned /\ chat.returned = "error") =>
          events[Len(events)].Error # ""

\* a stream that delivered content and then broke on a malformed line
C17_Witness ==
    /\ stream.pc = "returned"
    /\ stream.exit = "malformed"
    /\ Len(events) = 3
    /\ events[2] = StreamEvent("tok", FALSE, "")
    /\ events[3] = StreamEvent("", TRUE, ErrUnmarshal)

\* the positions of askOllamaChatRaw at which the chat request or its response
\* is in flight: in Do, reading the body of an error response, in
\* scanner.Scan, in the body of the loop
InFlight == {"do", "badStatus", "scan", "line"}

\* a.ctx was cancelled while the request or the response of the turn's
\* goroutine was in flight
CancelledInFlight == stream.cancelledAt \in InFlight

\* the content events the turn emitted after a.ctx was cancelled
LateContent ==
    {i \in DOMAIN events : i > stream.emittedAtCancel /\ ~events[i].Done}

\* C18 as stated: when a.ctx is cancelled while the chat request or its
\* response stream is in flight, askOllamaChatRaw emits no further content
\* event and its terminal event carries an empty error text.
C18_CancelledStreamEndsQuietly ==
    CancelledInFlight =>
        /\ LateContent = {}
        /\ stream.pc = "returned" => events[Len(events)].Error = ""

\* C18, amended: when a.ctx is cancelled while the chat request or its
\* response is in flight, the failure the cancellation causes (of Do, of the
\* read of the body) is never reported and the loop stops at its next
\* iteration: the terminal event's error text is empty, except for an error
\* that does not come from the cancellation, the non-200 status of a response
\* that arrived or the malformed line whose processing had begun; and no
\* content event follows the cancellation except that of the one line whose
\* processing had begun.
C18_CancelCausesNoError ==
    CancelledInFlight =>
        /\ LateContent # {} =>
              /\ stream.cancelledAt = "line"
              /\ Cardinality(LateContent) = 1
        /\ stream.pc = "returned" =>
              LET error == events[Len(events)].Error
              IN /\ error \notin {ErrSend, ErrRead}
                 /\ error # "" =>
                       \/ stream.cancelledAt \in {"do", "badStatus"} /\ error = ErrStatus
                       \/ stream.cancelledAt = "line" /\ error = ErrUnmarshal
                 /\ stream.cancelledAt = "scan" =>
                       /\ error = ""
                       /\ stream.exit \in {"cancelled", "eof"}

\* the context was cancelled after the first content event, while the
\* goroutine waited for the next line; it returned without an error
C18_Witness ==
    /\ stream.pc = "returned"
    /\ stream.cancelledAt = "scan"
    /\ stream.exit = "cancelled"
    /\ stream.emittedAtCancel = 2
    /\ events[2] = StreamEvent("tok", FALSE, "")
    /\ events[3] = StreamEvent("", TRUE, "")

\* a step in which an embedding call of a load returns its vector
LoadEmbeddingCompletes ==
    \E l \in Loaders :
        /\ load[l].pc = "embedding"
        /\ Len(documentStore') = Len(documentStore) + 1

\* a step in which a load sends an embedding request
LoadEmbeddingIssued ==
    \E l \in Loaders : load[l].pc # "embedding" /\ load'[l].pc = "embedding"

\* a step in which the embedding call for the query returns its vector
QueryEmbeddingCompletes == chat.pc = "queryEmbedding" /\ chat'.pc = "find"

\* a step in which askOllamaChatRaw goes on to process a line of the response
StreamLineAccepted == stream.pc = "scan" /\ stream'.pc = "line"

\* C19: once a.ctx is cancelled no call to the model service runs to
\* completion: no embedding call of HandleMessage or of LoadPersonalData
\* returns a vector, a load in progress sends no further embedding request,
\* and the chat call processes no further line of its response.
C19_CancelAbortsCalls ==
    [][ctxCancelled =>
          /\ ~LoadEmbeddingCompletes
          /\ ~LoadEmbeddingIssued
          /\ ~QueryEmbeddingCompletes
          /\ ~StreamLineAccepted]_vars

\* the units a splitter counts in: words for chunkText, characters otherwise
Units(splitter, text) == IF splitter = "chunkText" THEN Fields(text) ELSE text

\* the prefixes of a sequence
Prefixes(seq) == {SubSeq(seq, 1, n) : n \in 0 .. Len(seq)}

RECURSIVE Stitchings(_, _, _)
\* the prefixes of target that the first k chunks give when they are laid end
\* to end, each chunk dropping the units it shares with the end of what came
\* before it
Stitchings(chunks, k, target) ==
    IF k = 0 THEN {<<>>}
    ELSE LET chunk == chunks[k]
         IN {laid \in Prefixes(target) :
                \E before \in Stitchings(chunks, k - 1, target) :
                    \E shared \in 0 .. Min(Len(chunk), Len(before)) :
                        /\ SubSeq(before, Len(before) - shared + 1, Len(before))
                              = SubSeq(chunk, 1, shared)
                        /\ laid = before \o SubSeq(chunk, shared + 1, Len(chunk))}

\* the chunks of the call, each as a sequence of units
ResultUnits ==
    [i \in 1 .. Len(chunker.result) |-> Units(chunker.splitter, chunker.result[i])]

\* 0 <= overlap < chunkSize
ValidChunkParams == 0 <= chunker.overlap /\ chunker.overlap < chunker.chunkSize

\* C20: for every text and every chunk size and overlap with
\* 0 <= overlap < chunkSize, the chunks a splitter returns (fixedLengthChunker
\* and chunkTextRecursive in characters, chunkText in words), laid end to end
\* with the overlaps removed, give back the whole sequence of units of the
\* text, with no gap.
C20_ChunksCoverInput ==
    (chunker.pc = "returned" /\ ValidChunkParams) =>
        Units(chunker.splitter, chunker.text)
            \in Stitchings(ResultUnits, Len(ResultUnits),
                           Units(chunker.splitter, chunker.text))

\* a splitter call has returned
ChunkerReturned(splitters) ==
    chunker.pc = "returned" /\ chunker.splitter \in splitters

\* C21: for every text and every pair of parameters, chunkSize <= 0 included,
\* no chunk that chunkTextRecursive or chunkText returns is empty or made of
\* whitespace only, and an empty text gives no chunk.
C21_NoBlankChunk ==
    ChunkerReturned({"chunkTextRecursive", "chunkText"}) =>
        /\ \A i \in DOMAIN chunker.result :
               /\ chunker.result[i] # <<>>
               /\ ~IsWhitespace(chunker.result[i])
        /\ chunker.text = <<>> => chunker.result = <<>>

\* the last k units of earlier are the first k units of later
SharesUnits(earlier, later, k) ==
    /\ k <= Len(earlier)
    /\ k <= Len(later)
    /\ SubSeq(earlier, Len(earlier) - k + 1, Len(earlier)) = SubSeq(later, 1, k)

\* C22: in the output of fixedLengthChunker, chunkTextRecursive and chunkText,
\* called with 0 <= overlap < chunkSize, the last units of every chunk are the
\* first units of the chunk after it over at least
\* min(overlap, length of the earlier chunk) units.
C22_AdjacentChunksOverlap ==
    (chunker.pc = "returned" /\ ValidChunkParams) =>
        \A i \in 1 .. Len(ResultUnits) - 1 :
            \E k \in Min(chunker.overlap, Len(ResultUnits[i])) .. Len(ResultUnits[i]) :
                SharesUnits(ResultUnits[i], ResultUnits[i + 1], k)

\* C23: HandleMessage reads a.documentStore only while it holds a.mu, the
\* mutex LoadPersonalData holds: at the time of a read by findRelevantChunks
\* no LoadPersonalData call holds the mutex.  (HandleMessage takes the mutex
\* nowhere, so it holds none during the embedding or the generation call.)
C23_RetrievalUnderLock ==
    chat.scans = 1 => chat.scanDuring \notin Loaders

\* the call to the model service for the query embedding is in flight
QueryEmbeddingInFlight == chat.pc = "queryEmbedding"

\* the chat call of the turn's goroutine is being prepared or is in flight
ChatCallInFlight == stream.pc \in {"start"} \cup InFlight

\* C24: HandleMessage has returned to its caller whenever a call of its turn
\* to the model service is in flight, the query-embedding call as well as the
\* streaming chat call: it waits for neither.
C24_ReturnsWithoutWaiting ==
    (QueryEmbeddingInFlight \/ ChatCallInFlight) => TurnReturned

\* the stored records the claim gives similarity 0: a vector of another length
\* than the query's, or one of zero magnitude
ZeroSimilarityRecords ==
    {k \in DOMAIN documentStore :
        \/ Len(documentStore[k].Embedding) # Len(rank.queryEmbedding)
        \/ IsZeroVector(documentStore[k].Embedding)}

\* C25: in findRelevantChunks a stored record whose vector differs in length
\* from the query's, or has zero magnitude, is a candidate with score 0: it is
\* returned with score 0 unless the result is full of records that score no
\* lower; and the scan goes on, so the other records are ranked as usual.
C25_BadRecordScoresZero ==
    rank.pc = "returned" =>
        /\ \A k \in ZeroSimilarityRecords :
              \/ \E i \in DOMAIN rank.result :
                    /\ rank.result[i].ID = documentStore[k].ID
                    /\ rank.result[i].Score = ZeroScore
              \/ /\ Len(rank.result) = EffectiveTopN(rank.topN)
                 /\ \A i \in DOMAIN rank.result :
                       ~ScoreGreater(ZeroScore, rank.result[i].Score)
        /\ \A k \in ScoredRecords \ ZeroSimilarityRecords :
              \/ documentStore[k].ID \in ReturnedIDs
              \/ Len(rank.result) = EffectiveTopN(rank.topN)

\* C26: called on two vectors, cosineSimilarity returns an error, and the
\* value 0 with it, exactly when the vectors differ in length or are empty;
\* for two non-empty vectors of the same length it returns no error, and the
\* value 0 when one of them is all-zero.
C26_SimilarityErrors ==
    similarity.pc = "returned" =>
        LET misuse == \/ Len(similarity.vecA) # Len(similarity.vecB)
                      \/ Len(similarity.vecA) = 0
        IN /\ similarity.err # "" <=> misuse
           /\ similarity.err # "" => similarity.value = ZeroScore
           /\ (~misuse /\ (IsZeroVector(similarity.vecA) \/ IsZeroVector(similarity.vecB)))
                 => similarity.value = ZeroScore

C26_Witness ==
    /\ similarity.pc = "returned"
    /\ Len(similarity.vecA) = 2
    /\ IsZeroVector(similarity.vecA)
    /\ similarity.vecB = <<1, -1>>
    /\ similarity.err = ""
    /\ similarity.value = ZeroScore

\* a step after which the loop goes on does so from a later position
LoopAdvances ==
    (loop.pc = "loop" /\ loop'.pc = "loop") => loop'.start >= loop.start + 1

\* C27: every call of a splitter returns, whatever the text and the integer
\* parameters (overlap >= chunkSize and overlap < 0 included): every
\* iteration of a loop moves the start position forward by at least one unit,
\* so no two chunks start at the same position, and there are never more
\* chunks than the text has units.
C27_SplittersTerminate ==
    /\ [][LoopAdvances]_vars
    /\ [](\A i \in 1 .. Len(loop.spans) - 1 :
             loop.spans[i + 1].from > loop.spans[i].from)
    /\ [](Len(loop.chunks) <= Len(Units(loop.splitter, loop.text)))
    /\ ((loop.pc = "call" /\ loop.splitter # "chunkTextRecursive")
          ~> loop.pc = "returned")

C27_Witness ==
    /\ loop.pc = "returned"
    /\ loop.splitter = "chunkText"
    /\ loop.chunkSize > 0
    /\ loop.overlap >= loop.chunkSize
    /\ Len(loop.spans) >= 3

\* C28: the fixed-width splitters (fixedLengthChunker over characters,
\* chunkText over words) cut chunks only until the text is used up: every
\* chunk but the last has exactly chunkSize units, no chunk but the last
\* reaches the last unit of the text, and every chunk ends after the chunk
\* before it, so none lies wholly inside the chunk before it.
C28_StopsWhenConsumed ==
    (loop.pc = "returned" /\ loop.splitter \in {"fixedLengthChunker", "chunkText"}) =>
        \A i \in DOMAIN loop.spans :
            /\ i < Len(loop.spans) =>
                  /\ loop.spans[i].to - loop.spans[i].from = loop.size
                  /\ loop.spans[i].to < Len(loop.units)
            /\ i > 1 => loop.spans[i].to > loop.spans[i - 1].to

\* C29: for chunkSizeChars > 0 no chunk that chunkTextRecursive returns has
\* more than chunkSizeChars characters, whatever the text: a buffer merged
\* with the next piece and the separator stays within the limit, also when
\* the pieces come from a finer separator or from fixedLengthChunker.
C29_ChunksWithinSize ==
    (ChunkerReturned({"chunkTextRecursive"}) /\ chunker.chunkSize > 0) =>
        \A i \in DOMAIN chunker.result :
            Len(chunker.result[i]) <= chunker.chunkSize

\* a text longer than the limit whose pieces, cut at ". ", are merged at the
\* coarser level into a chunk that fills the limit exactly
C29_Witness ==
    /\ ChunkerReturned({"chunkTextRecursive"})
    /\ chunker.chunkSize = 3
    /\ chunker.text = <<"a", ".", " ", "b">>
    /\ chunker.result = << <<"a", "\n", "b">> >>

\* C30: LoadPersonalData unlocks a.mu on every return (cancellation, dialog
\* error, directory-read error, completion): a call that has returned does
\* not hold the mutex, the mutex is free once all calls have returned, and a
\* call waiting in Lock gets the mutex after the calls before it have
\* returned.
C30_LoadReleasesMutex ==
    /\ [](\A l \in Loaders : Finished(l) => mu # l)
    /\ []((\A l \in Loaders : Finished(l)) => mu = 0)
    /\ \A l \in Loaders :
          (load[l].pc = "idle" /\ \A k \in Loaders : k < l => Finished(k))
              ~> load[l].pc # "idle"

\* the first call returned on a directory-read error and the second call got
\* the mutex after it
C30_Witness ==
    /\ Returned(1)
    /\ load[1].result.msg = "error reading directory"
    /\ InLoad(2)
    /\ mu = 2

====
